---- MODULE Spec2Model ----
(***************************************************************************)
(* Model of src/airtable_integration.py: the reconciliation run            *)
(* smart_update_all_providers_with_deduplication, which updates the        *)
(* primary record of every duplicate group with the merged data and then   *)
(* deletes the duplicates, one remote call at a time.                      *)
(*                                                                         *)
(* Python values are tagged: [t |-> "str", v |-> <<chars>>],               *)
(* [t |-> "list", v |-> <<strings>>], [t |-> "bool", v |-> b].  A string   *)
(* is the sequence of its characters, so that startswith('rec') is         *)
(* computed.  A dict is a function from keys to values.  Positions into    *)
(* Python lists are 0-based, as in the source; TLA+ sequences are 1-based, *)
(* so list[p] is seq[p + 1].                                               *)
(***************************************************************************)
EXTENDS Integers, Sequences, FiniteSets, TLC

(* ------------------------------ bounds -------------------------------- *)
\* largest number of records fetched from the table
MaxExisting == 102
\* positions named by the matcher beyond the end of the fetched records
MaxMissing == 1
\* how far the merged sequence may be shorter or longer than the groups
MaxSkew == 1

(* ------------------------- program constants -------------------------- *)
batch_size == 10

(* ------------------------------ values -------------------------------- *)
Str(s) == [t |-> "str", v |-> s]
List(l) == [t |-> "list", v |-> l]
Bool(b) == [t |-> "bool", v |-> b]

\* Python truthiness of a value: `if record[key]`
Truthy(val) ==
    CASE val.t = "str" -> val.v # <<>>
      [] val.t = "list" -> val.v # <<>>
      [] val.t = "bool" -> val.v
      [] OTHER -> FALSE

\* item.startswith('rec')
StartsWithRec(s) == Len(s) >= 3 /\ SubSeq(s, 1, 3) = <<"r", "e", "c">>

\* isinstance(value, list) and all(isinstance(item, str) and item.startswith('rec') ...)
IsLinkedArray(val) ==
    val.t = "list" /\ \A k \in 1..Len(val.v) : StartsWithRec(val.v[k])

(* ---------------------- format_record_for_airtable -------------------- *)
\* the field_mapping dict, in source order: <<key, Airtable field>>
field_mapping ==
    << <<"email", "Email">>, <<"Email", "Email">>,
       <<"first_name", "First Name">>, <<"First Name", "First Name">>,
       <<"last_name", "Last Name">>, <<"Last Name", "Last Name">>,
       <<"name_full", "Registrant Full Name (F)">>,
       <<"Registrant Full Name (F)", "Registrant Full Name (F)">>,
       <<"uid", "UID">>, <<"UID", "UID">>, <<"uniqueID", "UID">>,
       <<"neon_crm_id", "NeonCRM Account ID">>,
       <<"NeonCRM Account ID", "NeonCRM Account ID">>,
       <<"circle_id", "Circle Account ID (C)">>,
       <<"Circle Account ID (C)", "Circle Account ID (C)">>,
       <<"provider_type", "Provider Type">>, <<"Provider Type", "Provider Type">>,
       <<"tags", "Tags">>, <<"Tags", "Tags">>,
       <<"tpg_id", "TPG ID">>, <<"TPG ID", "TPG ID">>,
       <<"member_status", "Member Status">>, <<"Member Status", "Member Status">>,
       <<"join_date", "Join Date">>, <<"Join Date", "Join Date">>,
       <<"event_rsvps", "Event RSVPs">>, <<"Event RSVPs", "Event RSVPs">>,
       <<"event_attendance", "Event Attendance">>,
       <<"Event Attendance", "Event Attendance">>,
       <<"donate_total", "Donate(Total)">>, <<"Donate(Total)", "Donate(Total)">>,
       <<"revenue_total", "Revenue (Total)">>, <<"Revenue (Total)", "Revenue (Total)">>,
       <<"newsletter", "Newsletter">>, <<"Newsletter", "Newsletter">>,
       <<"program_applications", "Program Applications">>,
       <<"Program Applications", "Program Applications">>,
       <<"program_acceptances", "Program Acceptances">>,
       <<"Program Acceptances", "Program Acceptances">>,
       <<"engagement_score", "Engagement Score">>,
       <<"Engagement Score", "Engagement Score">>,
       <<"test_link", "Test Link">>, <<"Test Link", "Test Link">>,
       <<"uid_from_test_link", "UID (from Test Link)">>,
       <<"UID (from Test Link)", "UID (from Test Link)">>,
       <<"tags_from_test_link", "Tags (from Test Link)">>,
       <<"Tags (from Test Link)", "Tags (from Test Link)">>,
       <<"events", "Events">>, <<"Events", "Events">>,
       <<"MATCH_STATUS", "Match Status">>, <<"Match Status", "Match Status">>,
       <<"match_status", "Match Status">>,
       <<"MATCH_REASONS", "Match Reasons">>, <<"Match Reasons", "Match Reasons">>,
       <<"match_reasons", "Match Reasons">> >>

MappingKeys == {field_mapping[k][1] : k \in 1..Len(field_mapping)}

\* every entry of field_mapping whose key is in the record, empty values too
MappedHitsKeepingEmpty(record) ==
    {k \in 1..Len(field_mapping) : field_mapping[k][1] \in DOMAIN record}

\* the entries of field_mapping whose key is in the record with a truthy value
MappedHits(record) ==
    {k \in 1..Len(field_mapping) :
        /\ field_mapping[k][1] \in DOMAIN record
        /\ Truthy(record[field_mapping[k][1]])}

\* keys outside the mapping that hold a linked record array
UnmappedLinked(record) ==
    {key \in DOMAIN record \ MappingKeys :
        Truthy(record[key]) /\ IsLinkedArray(record[key])}

SetMax(S) == CHOOSE x \in S : \A y \in S : y <= x

\* the 'fields' dict: a later entry of the mapping overwrites an earlier one
\* that names the same Airtable field
FormattedFields(record) ==
    LET hits == MappedHits(record)
        mapped == {field_mapping[k][2] : k \in hits}
        extra == UnmappedLinked(record)
    IN  [f \in mapped \cup extra |->
            IF f \in mapped
            THEN record[field_mapping[
                     SetMax({k \in hits : field_mapping[k][2] = f})][1]]
            ELSE record[f]]

format_record_for_airtable(record) == [fields |-> FormattedFields(record)]

(* --------------- outputs of the external matcher and merger ------------ *)
\* create_matched_groups and merge_matched_records live outside this file; the
\* run consumes their outputs.  Groups are disjoint, each with a non-empty list
\* of positions whose first element is the primary.
\* "head": only the first group has a duplicate; "pairs": every group has one;
\* "mixed": groups of one, two and three records in turn.
Patterns == {"head", "pairs", "mixed"}

GroupSize(pat, j) ==
    CASE pat = "head" -> IF j = 0 THEN 2 ELSE 1
      [] pat = "pairs" -> 2
      [] OTHER -> 1 + (j % 3)

Min(a, b) == IF a < b THEN a ELSE b

\* positions start .. start + size - 1; "mixed" groups name the highest position
\* as the primary, the others the lowest
GroupIndices(pat, start, size) ==
    [k \in 1..size |-> IF pat = "mixed" THEN start + size - k ELSE start + k - 1]

RECURSIVE GroupsFrom(_, _, _, _)
GroupsFrom(pat, j, start, total) ==
    IF start >= total THEN <<>>
    ELSE LET size == Min(GroupSize(pat, j), total - start)
         IN  <<[indices |-> GroupIndices(pat, start, size)]>>
                 \o GroupsFrom(pat, j + 1, start + size, total)

create_matched_groups(pat, total) == GroupsFrom(pat, 0, 0, total)

ch(c) == <<c>>
RecA == <<"r", "e", "c", "A">>
RecB == <<"r", "e", "c", "B">>

\* row p of final_df.to_dict('records')
FinalRecord(p) ==
    IF p % 2 = 0
    THEN [id |-> Str(ch("i")), email |-> Str(ch("a")), first_name |-> Str(<<>>),
          Events |-> List(<<RecA, RecB>>), MATCH_STATUS |-> Str(ch("m")),
          email_std |-> Str(ch("a")), source |-> Str(ch("s"))]
    ELSE [id |-> Str(ch("i")), email |-> Str(ch("b")), Email |-> Str(ch("c")),
          tags |-> List(<<ch("t")>>), Partner |-> List(<<RecB>>),
          MATCH_REASONS |-> Str(ch("e")), source |-> Str(ch("s"))]

merge_matched_records(n) == [p \in 1..n |-> FinalRecord(p - 1)]

\* records of the remote table: position p (0-based) holds id p + 1 ("r1" first)
fetch_airtable_records(n) == [p \in 1..n |-> [id |-> p]]

(* ----------------- smart_update: filtering internal fields ------------- *)
internal_fields ==
    {"MATCH_STATUS", "MATCH_REASONS", "email_std", "linkedin_url_std",
     "uniqueID_std", "phone_set_std", "first_name_std", "last_name_std"}

filtered_record(record) ==
    [k \in DOMAIN record \ internal_fields |-> record[k]]

filter_records(final_records) ==
    [p \in 1..Len(final_records) |-> filtered_record(final_records[p])]

(* ------------------------------- state -------------------------------- *)
VARIABLES
    config_ok,          \* validate_airtable_config(): API key and base id are set
    pc,                 \* "start", "update", "delete", "done"
    existing_records,   \* the records fetched from the table
    matched_groups,     \* the matcher's groups
    records,            \* filtered_records, the merged records passed to the update
    i,                  \* start of the current update batch (the outer loop variable)
    success_count,      \* update entries acknowledged by the remote store
    records_to_delete,  \* ids returned by the update phase
    del_pos,            \* position of the next id to delete
    deleted_count,      \* success_count of delete_duplicate_records
    http_log,           \* every PATCH and DELETE request issued, in order, with its outcome
    sent,               \* per update entry sent: the merged record it was built from
    diagnostics,        \* warnings and errors logged for skipped merged records
    result              \* the dict returned by the run

vars == <<config_ok, pc, existing_records, matched_groups, records, i,
          success_count, records_to_delete, del_pos, deleted_count,
          http_log, sent, diagnostics, result>>

NoResult == [pending |-> TRUE]

\* State of direct calls to the module's functions, one call per step.
VARIABLES
    AIRTABLE_API_KEY,   \* os.getenv('AIRTABLE_API_KEY')
    AIRTABLE_BASE_ID,   \* os.getenv('AIRTABLE_BASE_ID')
    AIRTABLE_TABLE_NAME,    \* os.getenv('AIRTABLE_TABLE_NAME', 'All Providers')
    LINKED_RECORD_FIELDS,   \* the configured names of linked record fields
    events_table,       \* the remote Events table: record id -> response of a lookup
    op,                 \* the function called last, "none" before the first call
    call_args,          \* <<its name, its argument>>, empty before the call
    op_ret,             \* <<its name, the value it returned>>, empty before the call
    op_requests         \* the remote requests it issued, in order

\* State kept from one apply phase to the next one on the same plan.
VARIABLES
    run,                \* 1 in the first apply phase, 2 when it is run again
    applied             \* the requests of the first apply phase, once it is over

opvars == <<AIRTABLE_API_KEY, AIRTABLE_BASE_ID, AIRTABLE_TABLE_NAME,
            LINKED_RECORD_FIELDS, events_table, op, call_args,
            op_ret, op_requests, run, applied>>

\* an environment variable: unset (None), or set to a string
Unset == [set |-> FALSE, v |-> <<>>]
SetTo(s) == [set |-> TRUE, v |-> s]
EnvValues == {Unset, SetTo(<<>>), SetTo(<<"k">>)}

\* `not AIRTABLE_API_KEY`: None and '' are both missing
Missing(e) == ~e.set \/ e.v = <<>>

\* a variant that checks the API key only
validate_api_key_only(key, base) == ~Missing(key)

validate_airtable_config(key, base) ==
    IF Missing(key) THEN FALSE
    ELSE IF Missing(base) THEN FALSE
    ELSE TRUE

(* ------- update_existing_records_with_deduplication_results: a batch --- *)
\* a variant that forgets the batch: the position inside the batch
record_idx_only(batch_start, record_idx) == record_idx

\* actual_record_idx = i * batch_size + record_idx
actual_record_idx(batch_start, record_idx) == batch_start * batch_size + record_idx

\* a variant that takes the rest of the records as one batch
rest_of_records(batch_start) == Len(records) - batch_start

\* batch = records[i:i + batch_size]
BatchLen(batch_start) == Min(batch_size, Len(records) - batch_start)

\* what the inner loop does with batch[record_idx]: an update entry or a diagnostic.
\* rec is the position of the merged record in records, idx the index the code
\* uses to find its group.
EntryFor(batch_start, record_idx) ==
    LET rec == batch_start + record_idx
        idx == actual_record_idx(batch_start, record_idx)
    IN  IF idx >= Len(records)
        THEN [kind |-> "exceeds_count", rec |-> rec, idx |-> idx]
        ELSE IF idx < Len(matched_groups)
        THEN LET original_record_index == matched_groups[idx + 1].indices[1]
             IN  IF original_record_index < Len(existing_records)
                 THEN [kind |-> "update", rec |-> rec, idx |-> idx,
                       id |-> existing_records[original_record_index + 1].id,
                       fields |-> format_record_for_airtable(records[rec + 1]).fields]
                 ELSE [kind |-> "out_of_bounds", rec |-> rec, idx |-> idx]
        ELSE [kind |-> "no_group", rec |-> rec, idx |-> idx]

BatchEntries(batch_start) ==
    [r \in 1..BatchLen(batch_start) |-> EntryFor(batch_start, r - 1)]

IsUpdate(e) == e.kind = "update"

\* batch_updates: the payload of the PATCH request
batch_updates(batch_start) ==
    LET ups == SelectSeq(BatchEntries(batch_start), IsUpdate)
    IN  [k \in 1..Len(ups) |-> [id |-> ups[k].id, fields |-> ups[k].fields]]

BatchSent(batch_start) ==
    LET ups == SelectSeq(BatchEntries(batch_start), IsUpdate)
    IN  [k \in 1..Len(ups) |-> [rec |-> ups[k].rec, id |-> ups[k].id]]

BatchDiagnostics(batch_start) ==
    {[kind |-> e.kind, rec |-> e.rec, idx |-> e.idx] :
        e \in {BatchEntries(batch_start)[r] : r \in 1..BatchLen(batch_start)}
              \ {x \in {BatchEntries(batch_start)[r] : r \in 1..BatchLen(batch_start)} :
                    IsUpdate(x)}}

(* ------- update_existing_records_with_deduplication_results: deletions -- *)
\* variants: the whole group, and all but the last index
duplicate_indices_whole_group(indices) == indices
duplicate_indices_all_but_last(indices) == SubSeq(indices, 1, Len(indices) - 1)

\* duplicate_indices = indices[1:]
duplicate_indices(indices) == Tail(indices)

InBounds(pos) == pos < Len(existing_records)

\* the ids appended for one group
GroupDeletions(group) ==
    IF Len(group.indices) > 1
    THEN LET dups == SelectSeq(duplicate_indices(group.indices), InBounds)
         IN  [k \in 1..Len(dups) |-> existing_records[dups[k] + 1].id]
    ELSE <<>>

RECURSIVE DeletionsFrom(_)
DeletionsFrom(g) ==
    IF g > Len(matched_groups) THEN <<>>
    ELSE GroupDeletions(matched_groups[g]) \o DeletionsFrom(g + 1)

\* records_to_delete as returned with success
find_records_to_delete == DeletionsFrom(1)

(* ----------------- smart_update: the returned summaries ---------------- *)
ErrorResult(msg) == [error |-> msg]

SuccessSummary(to_delete) ==
    [success |-> TRUE,
     original_records |-> Len(existing_records),
     final_records |-> Len(records),
     records_updated |-> Len(records),
     records_deleted |-> Len(to_delete),
     records_removed |-> Len(existing_records) - Len(records)]

(* ------------------------------ remote calls --------------------------- *)
\* a variant that never checks the response
status_not_checked(ok) == FALSE

\* response.raise_for_status(): a failed request raises RequestException
raise_for_status(ok) == ~ok

PatchRequest(payload, ok) == [method |-> "PATCH", records |-> payload, ok |-> ok]
DeleteRequest(id, ok) == [method |-> "DELETE", id |-> id, ok |-> ok]

(* -------------------------------- actions ------------------------------ *)
RunInit ==
    /\ pc = "start"
    /\ existing_records = <<>>
    /\ matched_groups = <<>>
    /\ records = <<>>
    /\ i = 0
    /\ success_count = 0
    /\ records_to_delete = <<>>
    /\ del_pos = 0
    /\ deleted_count = 0
    /\ http_log = <<>>
    /\ sent = <<>>
    /\ diagnostics = {}
    /\ result = NoResult

\* the environment is read when the module is imported
ConfigInit ==
    /\ AIRTABLE_API_KEY \in EnvValues
    /\ AIRTABLE_BASE_ID \in EnvValues
    /\ config_ok = validate_airtable_config(AIRTABLE_API_KEY, AIRTABLE_BASE_ID)
    /\ LINKED_RECORD_FIELDS = {"Events"}

\* AIRTABLE_TABLE_NAME when the environment does not set it
DefaultTable == "All Providers"

NoCall ==
    /\ op = "none"
    /\ call_args = <<>>
    /\ op_ret = <<>>
    /\ op_requests = <<>>
    /\ run = 1
    /\ applied = <<>>

\* the run names the table it works on itself ("All Providers")
Init ==
    /\ ConfigInit
    /\ AIRTABLE_TABLE_NAME = DefaultTable
    /\ RunInit
    /\ events_table = <<>>
    /\ NoCall

\* smart_update_all_providers_with_deduplication, steps 1-5, up to the first
\* batch of the update: fetch, match, merge, filter.
StartRun ==
    /\ pc = "start"
    /\ UNCHANGED <<config_ok, i, success_count, records_to_delete, del_pos,
                   deleted_count, http_log, sent, diagnostics>>
    /\ UNCHANGED opvars
    /\ IF ~config_ok
       THEN /\ result' = ErrorResult("Airtable configuration invalid")
            /\ pc' = "done"
            /\ UNCHANGED <<existing_records, matched_groups, records>>
       ELSE \E n \in 0..MaxExisting :
            IF n = 0
            THEN /\ result' = ErrorResult("No existing records found in All Providers table")
                 /\ pc' = "done"
                 /\ UNCHANGED <<existing_records, matched_groups, records>>
            ELSE \E pat \in Patterns, missing \in 0..MaxMissing, skew \in -MaxSkew..MaxSkew :
                 LET groups == create_matched_groups(pat, n + missing)
                 IN  /\ Len(groups) + skew >= 0
                     /\ existing_records' = fetch_airtable_records(n)
                     /\ matched_groups' = groups
                     /\ records' = filter_records(merge_matched_records(Len(groups) + skew))
                     /\ pc' = "update"
                     /\ result' = result

\* one iteration of `for i in range(0, len(records), batch_size)`: build
\* batch_updates and, when it is not empty, send it.  trailing is what is
\* requested after an acknowledged chunk and before the next one.
UpdateBatchStep(trailing) ==
    /\ pc = "update"
    /\ i < Len(records)
    /\ diagnostics' = diagnostics \cup BatchDiagnostics(i)
    /\ UNCHANGED <<config_ok, existing_records, matched_groups, records,
                   records_to_delete, del_pos, deleted_count>>
    /\ UNCHANGED opvars
    /\ IF batch_updates(i) = <<>>
       THEN /\ i' = i + batch_size
            /\ UNCHANGED <<pc, success_count, http_log, sent, result>>
       ELSE \E ok \in BOOLEAN :
            /\ sent' = sent \o [k \in 1..Len(BatchSent(i)) |->
                                  [rec |-> BatchSent(i)[k].rec,
                                   id |-> BatchSent(i)[k].id, ok |-> ok]]
            /\ IF raise_for_status(ok)
               THEN /\ http_log' = Append(http_log, PatchRequest(batch_updates(i), ok))
                    /\ pc' = "done"
                    /\ result' = ErrorResult("Failed to update All Providers table")
                    /\ UNCHANGED <<i, success_count>>
               ELSE /\ http_log' = Append(http_log, PatchRequest(batch_updates(i), ok))
                                      \o trailing
                    /\ success_count' = success_count + Len(batch_updates(i))
                    /\ i' = i + batch_size
                    /\ UNCHANGED <<pc, result>>

\* a variant that deletes the duplicates as soon as a chunk is acknowledged
EagerDeletes ==
    LET ids == find_records_to_delete
    IN  [k \in 1..Len(ids) |-> DeleteRequest(ids[k], TRUE)]

UpdateBatchDeletingAsItGoes == UpdateBatchStep(EagerDeletes)

UpdateBatch == UpdateBatchStep(<<>>)

\* the update loop is over: collect the ids to delete, return (True, ids) to
\* smart_update, which returns the summary when there is nothing to delete.
FinishUpdates ==
    /\ pc = "update"
    /\ i >= Len(records)
    /\ records_to_delete' = find_records_to_delete
    /\ IF find_records_to_delete = <<>>
       THEN /\ pc' = "done"
            /\ result' = SuccessSummary(<<>>)
       ELSE /\ pc' = "delete"
            /\ result' = result
    /\ UNCHANGED <<config_ok, existing_records, matched_groups, records, i,
                   success_count, del_pos, deleted_count, http_log, sent,
                   diagnostics>>
    /\ UNCHANGED opvars

\* delete_duplicate_records: one DELETE call.  A failed call raises, the
\* function returns False and smart_update logs a warning; after the last id it
\* returns True.  Either way smart_update returns the summary.
DeleteRecord ==
    /\ pc = "delete"
    /\ del_pos < Len(records_to_delete)
    /\ \E ok \in BOOLEAN :
        /\ http_log' = Append(http_log, DeleteRequest(records_to_delete[del_pos + 1], ok))
        /\ IF raise_for_status(ok)
           THEN /\ pc' = "done"
                /\ result' = SuccessSummary(records_to_delete)
                /\ UNCHANGED <<del_pos, deleted_count>>
           ELSE /\ deleted_count' = deleted_count + 1
                /\ del_pos' = del_pos + 1
                /\ IF del_pos + 1 = Len(records_to_delete)
                   THEN /\ pc' = "done"
                        /\ result' = SuccessSummary(records_to_delete)
                   ELSE UNCHANGED <<pc, result>>
    /\ UNCHANGED <<config_ok, existing_records, matched_groups, records, i,
                   success_count, records_to_delete, sent, diagnostics>>
    /\ UNCHANGED opvars

Next == StartRun \/ UpdateBatch \/ FinishUpdates \/ DeleteRecord

allvars == <<vars, opvars>>

Spec == Init /\ [][Next]_allvars

TypeOK ==
    /\ pc \in {"start", "update", "delete", "done"}
    /\ config_ok \in BOOLEAN
    /\ i \in Nat /\ success_count \in Nat /\ del_pos \in Nat /\ deleted_count \in Nat

(* ------------------------------- strings ------------------------------- *)
\* the whitespace characters that can be written in a string: space, tab, line
\* feed, carriage return, form feed, then U+000B, U+001C to U+001F, U+0085,
\* U+00A0 and U+1680
WrittenWhitespace ==
    {" ", "\t", "\n", "\r", "\f",
     "", "", "", "", "", "", " ", " "}

\* the whitespace characters a string here cannot hold, each written as the
\* name of its code point: U+2000 to U+200A, U+2028, U+2029, U+202F, U+205F and
\* U+3000
NamedWhitespace ==
    {"U+2000", "U+2001", "U+2002", "U+2003", "U+2004", "U+2005", "U+2006", "U+2007",
     "U+2008", "U+2009", "U+200A", "U+2028", "U+2029", "U+202F", "U+205F", "U+3000"}

\* the characters str.strip() removes: every character c with c.isspace()
Whitespace == WrittenWhitespace \cup NamedWhitespace

RECURSIVE LStrip(_)
LStrip(s) == IF s # <<>> /\ Head(s) \in Whitespace THEN LStrip(Tail(s)) ELSE s

RECURSIVE RStrip(_)
RStrip(s) ==
    IF s # <<>> /\ s[Len(s)] \in Whitespace
    THEN RStrip(SubSeq(s, 1, Len(s) - 1)) ELSE s

\* s.strip()
Strip(s) == RStrip(LStrip(s))

\* s.split(','): the pieces between commas, empty pieces included
RECURSIVE SplitFrom(_, _, _)
SplitFrom(s, k, piece) ==
    IF k > Len(s) THEN <<piece>>
    ELSE IF s[k] = "," THEN <<piece>> \o SplitFrom(s, k + 1, <<>>)
    ELSE SplitFrom(s, k + 1, Append(piece, s[k]))

Split(s) == SplitFrom(s, 1, <<>>)

NonBlank(piece) == Strip(piece) # <<>>

\* [name.strip() for name in s.split(',') if name.strip()]
SplitNames(s) ==
    LET kept == SelectSeq(Split(s), NonBlank)
    IN  [k \in 1..Len(kept) |-> Strip(kept[k])]

(* ------------------------ get_event_names_from_ids --------------------- *)
RecC == <<"r", "e", "c", "C">>
NotRec == <<"e", "v", "t">>

\* a lookup's response: status 200 with an 'Event Name' (possibly empty), another
\* status, or no response at all (requests.get raises)
Response(kind, name) == [kind |-> kind, name |-> name]

\* GET {AIRTABLE_API_URL}/Events/{event_id}; an id the table does not hold is
\* answered 404
Lookup(event_id) ==
    IF event_id \in DOMAIN events_table THEN events_table[event_id]
    ELSE Response("404", <<>>)

GetRequest(event_id) == [method |-> "GET", table |-> "Events", id |-> event_id]

\* the loop over event_ids from position k on; an exception leaves the loop
\* and the function returns []
RECURSIVE EventNamesLoop(_, _, _, _)
EventNamesLoop(event_ids, k, event_names, reqs) ==
    IF k > Len(event_ids) THEN [ret |-> event_names, requests |-> reqs]
    ELSE IF ~StartsWithRec(event_ids[k])
    THEN EventNamesLoop(event_ids, k + 1, event_names, reqs)
    ELSE LET response == Lookup(event_ids[k])
             issued == Append(reqs, GetRequest(event_ids[k]))
         IN  IF response.kind = "exception"
             THEN [ret |-> <<>>, requests |-> issued]
             ELSE IF response.kind = "200" /\ response.name # <<>>
             THEN EventNamesLoop(event_ids, k + 1,
                                 Append(event_names, response.name), issued)
             ELSE EventNamesLoop(event_ids, k + 1, event_names, issued)

get_event_names_from_ids(event_ids) ==
    IF event_ids = <<>> \/ ~config_ok
    THEN [ret |-> <<>>, requests |-> <<>>]
    ELSE EventNamesLoop(event_ids, 1, <<>>, <<>>)

(* ------------------------- process_checkbox_fields --------------------- *)
\* record.get(key, default)
Get(record, key, default) == IF key \in DOMAIN record THEN record[key] ELSE default

RsvpPlaceholder == <<"H", "a", "s", " ", "R", "S", "V", "P", "'", "d", " ", "t", "o", " ", "E", "v", "e", "n", "t", "s">>
AttendancePlaceholder == <<"H", "a", "s", " ", "A", "t", "t", "e", "n", "d", "e", "d", " ", "E", "v", "e", "n", "t", "s">>

\* event_names as first computed from the record's 'Events'
LinkedEventNames(record) ==
    LET linked_events == Get(record, "Events", List(<<>>))
    IN  IF IsLinkedArray(linked_events)
        THEN get_event_names_from_ids(linked_events.v)
        ELSE IF linked_events.t = "str" /\ Strip(linked_events.v) # <<>>
        THEN [ret |-> SplitNames(linked_events.v), requests |-> <<>>]
        ELSE [ret |-> <<>>, requests |-> <<>>]

\* the if/elif chain of one checkbox field.  event_names is the variable as it
\* stands when the chain starts; the list and string branches assign it.
CheckboxStep(record, field, placeholder, event_names) ==
    LET checkbox == Get(record, field, Bool(FALSE))
    IN  IF checkbox.t = "bool" /\ checkbox.v /\ event_names # <<>>
        THEN [assigned |-> TRUE, value |-> List(event_names),
              event_names |-> event_names, requests |-> <<>>]
        ELSE IF checkbox.t = "bool" /\ checkbox.v /\ event_names = <<>>
        THEN [assigned |-> TRUE, value |-> List(<<placeholder>>),
              event_names |-> event_names, requests |-> <<>>]
        ELSE IF IsLinkedArray(checkbox)
        THEN LET got == get_event_names_from_ids(checkbox.v)
             IN  [assigned |-> TRUE, value |-> List(got.ret),
                  event_names |-> got.ret, requests |-> got.requests]
        ELSE IF checkbox.t = "str" /\ Strip(checkbox.v) # <<>>
        THEN [assigned |-> TRUE, value |-> List(SplitNames(checkbox.v)),
              event_names |-> SplitNames(checkbox.v), requests |-> <<>>]
        ELSE [assigned |-> FALSE, value |-> checkbox,
              event_names |-> event_names, requests |-> <<>>]

\* processed_record with one key assigned
Assign(record, key, value) ==
    [k \in DOMAIN record \cup {key} |-> IF k = key THEN value ELSE record[k]]

process_checkbox_fields(record) ==
    LET names == LinkedEventNames(record)
        rsvps == CheckboxStep(record, "Event RSVPs", RsvpPlaceholder, names.ret)
        attendance == CheckboxStep(record, "Event Attendance",
                                   AttendancePlaceholder, rsvps.event_names)
        with_rsvps == IF rsvps.assigned
                      THEN Assign(record, "Event RSVPs", rsvps.value)
                      ELSE record
        processed_record == IF attendance.assigned
                            THEN Assign(with_rsvps, "Event Attendance", attendance.value)
                            ELSE with_rsvps
    IN  [ret |-> processed_record,
         requests |-> names.requests \o rsvps.requests \o attendance.requests]

(* ----------------------- detect_linked_record_fields ------------------- *)
\* record.get('fields', {})
FieldsOfRecord(record) == IF "fields" \in DOMAIN record THEN record.fields ELSE <<>>

\* the inner loop: the fields of one record
RECURSIVE DetectInFields(_, _, _)
DetectInFields(fields, names, linked_record_fields) ==
    IF names = {} THEN linked_record_fields
    ELSE LET field_name == CHOOSE n \in names : TRUE
         IN  DetectInFields(fields, names \ {field_name},
                 IF IsLinkedArray(fields[field_name])
                 THEN linked_record_fields \cup {field_name}
                 ELSE linked_record_fields)

\* the outer loop: the records from position k on
RECURSIVE DetectFrom(_, _, _)
DetectFrom(remote, k, linked_record_fields) ==
    IF k > Len(remote) THEN linked_record_fields
    ELSE DetectFrom(remote, k + 1,
             DetectInFields(FieldsOfRecord(remote[k]), DOMAIN FieldsOfRecord(remote[k]),
                            linked_record_fields))

\* a field is linked only if no record holds anything but a reference list
detect_when_every_value_linked(remote) ==
    LINKED_RECORD_FIELDS \cup
        {f \in UNION {DOMAIN remote[k].fields : k \in 1..Len(remote)} :
            \A k \in 1..Len(remote) :
                f \in DOMAIN remote[k].fields => IsLinkedArray(remote[k].fields[f])}

detect_linked_record_fields(remote) == DetectFrom(remote, 1, LINKED_RECORD_FIELDS)

(* ------------------ convert_airtable_to_dataframe_format --------------- *)
\* the keys of converted_record read with fields.get(name, '')
converted_keys ==
    <<
       <<"email", "Email">>,
       <<"first_name", "First Name">>,
       <<"last_name", "Last Name">>,
       <<"name_full", "Registrant Full Name (F)">>,
       <<"uid", "UID">>,
       <<"neon_crm_id", "NeonCRM Account ID">>,
       <<"circle_id", "Circle Account ID (C)">>,
       <<"provider_type", "Provider Type">>,
       <<"tags", "Tags">>,
       <<"tpg_id", "TPG ID">>,
       <<"member_status", "Member Status">>,
       <<"join_date", "Join Date">>,
       <<"event_rsvps", "Event RSVPs">>,
       <<"event_attendance", "Event Attendance">>,
       <<"donate_total", "Donate(Total)">>,
       <<"revenue_total", "Revenue (Total)">>,
       <<"newsletter", "Newsletter">>,
       <<"program_applications", "Program Applications">>,
       <<"program_acceptances", "Program Acceptances">>,
       <<"engagement_score", "Engagement Score">>,
       <<"test_link", "Test Link">>,
       <<"uid_from_test_link", "UID (from Test Link)">>,
       <<"tags_from_test_link", "Tags (from Test Link)">>,
       <<"events", "Events">> >>

ConvertedKeyNames == {converted_keys[k][1] : k \in 1..Len(converted_keys)}

AirtableNameOf(key) ==
    converted_keys[CHOOSE k \in 1..Len(converted_keys) : converted_keys[k][1] = key][2]

\* converted_record before process_checkbox_fields
ConvertedRecord(record, linked_record_fields) ==
    LET fields == FieldsOfRecord(record)
        preserved == DOMAIN fields \cap linked_record_fields
    IN  [key \in {"id", "source"} \cup ConvertedKeyNames \cup preserved |->
            IF key \in preserved THEN fields[key]
            ELSE IF key = "id" THEN Str(record.id)
            ELSE IF key = "source" THEN Str(<<"a", "i", "r", "t", "a", "b", "l", "e">>)
            ELSE Get(fields, AirtableNameOf(key), Str(<<>>))]

RECURSIVE ConvertFrom(_, _, _, _, _)
ConvertFrom(remote, linked_record_fields, k, converted_records, reqs) ==
    IF k > Len(remote) THEN [ret |-> converted_records, requests |-> reqs]
    ELSE LET processed == process_checkbox_fields(
                              ConvertedRecord(remote[k], linked_record_fields))
         IN  ConvertFrom(remote, linked_record_fields, k + 1,
                         Append(converted_records, processed.ret),
                         reqs \o processed.requests)

convert_airtable_to_dataframe_format(remote) ==
    ConvertFrom(remote, detect_linked_record_fields(remote), 1, <<>>, <<>>)

(* ------------------- the operations called one at a time ---------------- *)
\* longest list of references handed to an operation
MaxRefs == 3

EventIds == {RecA, RecB, RecC, NotRec}

SeqsUpTo(S, n) == UNION {[1..m -> S] : m \in 0..n}

RefLists == SeqsUpTo(EventIds, MaxRefs)

EventName(event_id) ==
    IF event_id = RecA THEN <<"M", "i", "x">> ELSE <<"G", "a", "l", "a">>

\* what the Events table may answer for a record it holds: its name, for recA
\* an empty name, for recB no answer at all, or a server error
Responses(event_id) ==
    {Response("200", EventName(event_id)), Response("500", <<>>),
     IF event_id = RecA THEN Response("200", <<>>) ELSE Response("exception", <<>>)}

EventTables ==
    {t \in [{RecA, RecB} -> UNION {Responses(e) : e \in {RecA, RecB}}] :
        \A e \in {RecA, RecB} : t[e] \in Responses(e)}

\* records in the table when a function is called directly
PlanRecords == 3

\* the fields of the record at position p of that table: the first attended
\* an event, the second is linked to another event, the others hold nothing
PlanFields(p) ==
    IF p = 1 THEN [name \in {"Events", "Event RSVPs"} |->
                      IF name = "Events" THEN List(<<RecA>>) ELSE Bool(TRUE)]
    ELSE IF p = 2 THEN [name \in {"Events"} |-> List(<<RecB>>)]
    ELSE <<>>

PlanTable(n) ==
    [p \in 1..n |-> [id |-> fetch_airtable_records(n)[p].id, fields |-> PlanFields(p)]]

\* the table, the matcher's groups and the merged records a direct call works on
PlanInit ==
    /\ pc = "start"
    /\ existing_records = PlanTable(PlanRecords)
    /\ matched_groups = create_matched_groups("head", PlanRecords)
    /\ records = filter_records(merge_matched_records(
                     Len(create_matched_groups("head", PlanRecords))))
    /\ i = 0
    /\ success_count = 0
    /\ records_to_delete = <<>>
    /\ del_pos = 0
    /\ deleted_count = 0
    /\ http_log = <<>>
    /\ sent = <<>>
    /\ diagnostics = {}
    /\ result = NoResult

\* the environments a function is called in: every pair of key and base id
\* with the default table name, and a table name set in the environment with
\* the base id set and unset
Environments ==
    (EnvValues \X EnvValues \X {DefaultTable})
        \cup ({SetTo(<<"k">>)} \X {SetTo(<<"k">>), Unset} \X {"Other"})

OpsInit ==
    /\ \E env \in Environments :
        /\ AIRTABLE_API_KEY = env[1]
        /\ AIRTABLE_BASE_ID = env[2]
        /\ AIRTABLE_TABLE_NAME = env[3]
    /\ config_ok = validate_airtable_config(AIRTABLE_API_KEY, AIRTABLE_BASE_ID)
    /\ LINKED_RECORD_FIELDS = {"Events"}
    /\ PlanInit
    /\ events_table \in EventTables
    /\ NoCall

\* what a call leaves alone
OpsFrame == UNCHANGED <<vars, AIRTABLE_API_KEY, AIRTABLE_BASE_ID,
                        AIRTABLE_TABLE_NAME, LINKED_RECORD_FIELDS, events_table,
                        run, applied>>

\* the argument and the result of the call made
Arg == call_args[2]
Ret == op_ret[2]

\* each behaviour makes one call, from the state the module is imported in or
\* after configure_linked_record_fields
NotCalledYet == op \in {"none", "configure_linked_record_fields"}

\* the None a function without a return statement returns
None == [t |-> "none", v |-> <<>>]

\* lists of names handed to configure_linked_record_fields
ConfigurableFields == {{"Tags"}, {"Event RSVPs"}}

\* LINKED_RECORD_FIELDS.update(field_names)
configure_linked_record_fields(field_names) == LINKED_RECORD_FIELDS \cup field_names

CallConfigureLinkedRecordFields ==
    /\ op = "none"
    /\ \E field_names \in ConfigurableFields :
        /\ LINKED_RECORD_FIELDS' = configure_linked_record_fields(field_names)
        /\ op' = "configure_linked_record_fields"
        /\ call_args' = <<"configure_linked_record_fields", field_names>>
        /\ op_ret' = <<"configure_linked_record_fields", None>>
        /\ op_requests' = <<>>
        /\ UNCHANGED <<vars, AIRTABLE_API_KEY, AIRTABLE_BASE_ID, AIRTABLE_TABLE_NAME,
                       events_table, run, applied>>

CallGetEventNames ==
    /\ NotCalledYet
    /\ \E event_ids \in RefLists :
        LET out == get_event_names_from_ids(event_ids)
        IN  /\ op' = "get_event_names_from_ids"
            /\ call_args' = <<"get_event_names_from_ids", event_ids>>
            /\ op_ret' = <<"get_event_names_from_ids", out.ret>>
            /\ op_requests' = out.requests
            /\ OpsFrame

\* a key the record does not have
Absent == [t |-> "absent", v |-> <<>>]

\* dict equality on values and on records
SameValue(a, b) == a.t = b.t /\ a.v = b.v

SameFields(f, g) ==
    /\ DOMAIN f = DOMAIN g
    /\ \A k \in DOMAIN f : SameValue(f[k], g[k])

\* the dict with the given key set (or removed, for Absent)
WithField(record, key, value) ==
    IF value.t = "absent"
    THEN [k \in DOMAIN record \ {key} |-> record[k]]
    ELSE Assign(record, key, value)

\* values tried for the 'Events' field
EventsValues ==
    <<Absent, List(<<>>), List(<<RecA>>), List(<<RecA, RecB>>), List(<<NotRec>>),
      Str(<<"Z", ",", " ", "Q">>), Str(<<" ", "\t", " ">>)>>

\* values tried for a checkbox field
CheckboxValues ==
    <<Absent, Bool(TRUE), Bool(FALSE), List(<<>>), List(<<RecB>>),
      List(<<RecB, RecA>>), Str(<<"\t", "X", ",", "\n", "", ",", "Y", "">>), Str(<<>>)>>

EmptyRecord == [k \in {} |-> Absent]

CheckboxRecord(events, rsvps, attendance) ==
    WithField(WithField(WithField(EmptyRecord, "Events", events),
                        "Event RSVPs", rsvps), "Event Attendance", attendance)

CallProcessCheckboxFields ==
    /\ NotCalledYet
    /\ \E e \in DOMAIN EventsValues, r \in DOMAIN CheckboxValues,
          a \in DOMAIN CheckboxValues :
        LET record == CheckboxRecord(EventsValues[e], CheckboxValues[r],
                                     CheckboxValues[a])
            out == process_checkbox_fields(record)
        IN  /\ op' = "process_checkbox_fields"
            /\ call_args' = <<"process_checkbox_fields", record>>
            /\ op_ret' = <<"process_checkbox_fields", out.ret>>
            /\ op_requests' = out.requests
            /\ OpsFrame

(* remote records handed to detect and convert: each field takes one of the
   values listed for it *)
\* most records in a batch handed to detect_linked_record_fields
MaxBatch == 2

DetectFieldValues ==
    << <<"Tags", <<Absent, Str(<<"t">>), List(<<RecA>>), List(<<RecA, NotRec>>),
                   List(<<>>)>> >>,
       <<"Events", <<Absent, Str(<<"M", "i", "x">>)>> >> >>

ConvertFieldValues ==
    << <<"Email", <<Absent, Str(<<"a">>), Str(<<>>)>> >>,
       <<"Tags", <<Absent, List(<<RecA>>), List(<<NotRec>>)>> >>,
       <<"Events", <<Absent, List(<<RecA>>)>> >>,
       <<"Event RSVPs", <<Absent, Bool(TRUE), List(<<RecB>>)>> >>,
       <<"Event Attendance", <<Absent, Bool(TRUE), List(<<RecA>>)>> >>,
       <<"Match Status", <<Absent, Str(<<"m">>)>> >>,
       <<"Partner", <<Absent, List(<<RecB>>)>> >> >>

\* one value picked for every field
Choices(field_values) ==
    {c \in [DOMAIN field_values ->
                1..SetMax({Len(field_values[k][2]) : k \in DOMAIN field_values})] :
        \A k \in DOMAIN field_values : c[k] \in DOMAIN field_values[k][2]}

\* the 'fields' dict of the record so picked
FieldsOf(field_values, c) ==
    LET present == {k \in DOMAIN field_values : field_values[k][2][c[k]].t # "absent"}
    IN  [name \in {field_values[k][1] : k \in present} |->
            LET k == CHOOSE j \in present : field_values[j][1] = name
            IN  field_values[k][2][c[k]]]

RemoteRecord(field_values, c) == [id |-> RecC, fields |-> FieldsOf(field_values, c)]

CallDetectLinkedRecordFields ==
    /\ NotCalledYet
    /\ \E cs \in SeqsUpTo(Choices(DetectFieldValues), MaxBatch) :
        LET remote == [k \in DOMAIN cs |-> RemoteRecord(DetectFieldValues, cs[k])]
        IN  /\ op' = "detect_linked_record_fields"
            /\ call_args' = <<"detect_linked_record_fields", remote>>
            /\ op_ret' = <<"detect_linked_record_fields", detect_linked_record_fields(remote)>>
            /\ op_requests' = <<>>
            /\ OpsFrame

CallConvert ==
    /\ NotCalledYet
    /\ \E c \in Choices(ConvertFieldValues) :
        LET remote == <<RemoteRecord(ConvertFieldValues, c)>>
            out == convert_airtable_to_dataframe_format(remote)
        IN  /\ op' = "convert_airtable_to_dataframe_format"
            /\ call_args' = <<"convert_airtable_to_dataframe_format", remote>>
            /\ op_ret' = <<"convert_airtable_to_dataframe_format", out.ret>>
            /\ op_requests' = out.requests
            /\ OpsFrame

(* ------------- the remote-facing functions, one whole call ------------- *)
\* most remote calls of one direct call that can be the failing one
MaxCalls == 4

page_size == 100

\* fail_at is the number of the request answered with an error, 0 for none
Answered(reqs, fail_at) == fail_at # Len(reqs) + 1

\* table = table_name or AIRTABLE_TABLE_NAME; "" stands for None and ''
TableOr(table_name) == IF table_name = "" THEN AIRTABLE_TABLE_NAME ELSE table_name

\* table names handed to a function
TableArgs == {"", "All Providers"}

\* fetch_airtable_records: the pagination loop over the table; the store
\* answers with existing_records whatever the table is called
RECURSIVE FetchLoop(_, _, _, _, _)
FetchLoop(table, offset, all_records, reqs, fail_at) ==
    LET ok == Answered(reqs, fail_at)
        issued == Append(reqs, [method |-> "GET", table |-> table,
                                offset |-> offset, ok |-> ok])
        page == SubSeq(existing_records, offset + 1,
                       Min(offset + page_size, Len(existing_records)))
    IN  IF raise_for_status(ok) THEN [ret |-> <<>>, requests |-> issued]
        ELSE IF offset + page_size < Len(existing_records)
        THEN FetchLoop(table, offset + page_size, all_records \o page, issued, fail_at)
        ELSE [ret |-> all_records \o page, requests |-> issued]

FetchAirtableRecords(table_name, fail_at) ==
    IF ~config_ok THEN [ret |-> <<>>, requests |-> <<>>]
    ELSE FetchLoop(TableOr(table_name), 0, <<>>, <<>>, fail_at)

\* remote is what the table holds; the response carries its first record.  The
\* names of that record's fields are returned as a set: the order of the keys
\* in the response is not kept.
get_airtable_table_info(table_name, remote, fail_at) ==
    IF ~config_ok THEN [ret |-> EmptyRecord, requests |-> <<>>]
    ELSE LET table == TableOr(table_name)
             ok == Answered(<<>>, fail_at)
             issued == <<[method |-> "GET", table |-> table, maxRecords |-> 1,
                          ok |-> ok]>>
             data == SubSeq(remote, 1, Min(1, Len(remote)))
         IN  IF raise_for_status(ok) THEN [ret |-> EmptyRecord, requests |-> issued]
             ELSE [ret |-> [table_name |-> table,
                            record_count |-> Len(data),
                            fields |-> IF data # <<>>
                                       THEN DOMAIN Get(data[1], "fields", EmptyRecord)
                                       ELSE {}],
                   requests |-> issued]

\* update_existing_records_with_deduplication_results: the loop over batches
RECURSIVE UpdateLoop(_, _, _)
UpdateLoop(batch_start, reqs, fail_at) ==
    IF batch_start >= Len(records)
    THEN [ret |-> <<TRUE, find_records_to_delete>>, requests |-> reqs]
    ELSE IF batch_updates(batch_start) = <<>>
    THEN UpdateLoop(batch_start + batch_size, reqs, fail_at)
    ELSE LET ok == Answered(reqs, fail_at)
             issued == Append(reqs, PatchRequest(batch_updates(batch_start), ok))
         IN  IF raise_for_status(ok)
             THEN [ret |-> <<FALSE, <<>>>>, requests |-> issued]
             ELSE UpdateLoop(batch_start + batch_size, issued, fail_at)

update_existing_records_with_deduplication_results(fail_at) ==
    IF ~config_ok THEN [ret |-> <<FALSE, <<>>>>, requests |-> <<>>]
    ELSE UpdateLoop(0, <<>>, fail_at)

\* create_new_records_batch: one POST per batch of batch_size records
RECURSIVE CreateLoop(_, _, _, _)
CreateLoop(new_records, batch_start, reqs, fail_at) ==
    IF batch_start >= Len(new_records) THEN [ret |-> TRUE, requests |-> reqs]
    ELSE LET batch == SubSeq(new_records, batch_start + 1,
                             Min(batch_start + batch_size, Len(new_records)))
             batch_creates == [k \in DOMAIN batch |-> format_record_for_airtable(batch[k])]
             ok == Answered(reqs, fail_at)
             issued == Append(reqs, [method |-> "POST", records |-> batch_creates,
                                     ok |-> ok])
         IN  IF raise_for_status(ok) THEN [ret |-> FALSE, requests |-> issued]
             ELSE CreateLoop(new_records, batch_start + batch_size, issued, fail_at)

create_new_records_batch(new_records, fail_at) ==
    IF ~config_ok THEN [ret |-> FALSE, requests |-> <<>>]
    ELSE CreateLoop(new_records, 0, <<>>, fail_at)

\* delete_duplicate_records: one DELETE per id, stopping at the first error
RECURSIVE DeleteLoop(_, _, _, _)
DeleteLoop(record_ids, k, reqs, fail_at) ==
    IF k > Len(record_ids) THEN [ret |-> TRUE, requests |-> reqs]
    ELSE LET ok == Answered(reqs, fail_at)
             issued == Append(reqs, DeleteRequest(record_ids[k], ok))
         IN  IF raise_for_status(ok) THEN [ret |-> FALSE, requests |-> issued]
             ELSE DeleteLoop(record_ids, k + 1, issued, fail_at)

delete_duplicate_records(record_ids, fail_at) ==
    IF ~config_ok THEN [ret |-> FALSE, requests |-> <<>>]
    ELSE DeleteLoop(record_ids, 1, <<>>, fail_at)

\* smart_update_all_providers_with_deduplication from its first line to its
\* return; the matcher and the merger give the groups and records of the plan.
\* fail_at counts the requests to the table; the lookups of the conversion are
\* answered by the Events table.
smart_update_all_providers_with_deduplication(fail_at) ==
    IF ~config_ok
    THEN [ret |-> ErrorResult("Airtable configuration invalid"), requests |-> <<>>]
    ELSE LET fetched == FetchAirtableRecords("All Providers", fail_at)
             records_data == convert_airtable_to_dataframe_format(fetched.ret)
             updated == update_existing_records_with_deduplication_results(
                            fail_at - Len(fetched.requests))
             to_delete == updated.ret[2]
             deleted == IF to_delete = <<>> THEN [ret |-> TRUE, requests |-> <<>>]
                        ELSE delete_duplicate_records(to_delete,
                                 fail_at - Len(fetched.requests) - Len(updated.requests))
         IN  IF fetched.ret = <<>>
             THEN [ret |-> ErrorResult("No existing records found in All Providers table"),
                   requests |-> fetched.requests]
             ELSE IF ~updated.ret[1]
             THEN [ret |-> ErrorResult("Failed to update All Providers table"),
                   requests |-> fetched.requests \o records_data.requests
                                    \o updated.requests]
             ELSE [ret |-> SuccessSummary(to_delete),
                   requests |-> fetched.requests \o records_data.requests
                                    \o updated.requests \o deleted.requests]

\* tables get_airtable_table_info is asked about: empty, records without fields,
\* records whose first one has fields
InfoTables ==
    <<<<>>, existing_records,
      <<[id |-> RecC, fields |-> [name \in {"Email", "Tags"} |->
                                     IF name = "Email" THEN Str(<<"a">>)
                                     ELSE List(<<RecA>>)]],
        [id |-> RecA, fields |-> EmptyRecord]>>,
      <<[id |-> RecC, fields |-> EmptyRecord]>> >>

CallFetchAirtableRecords ==
    /\ NotCalledYet
    /\ \E table_name \in TableArgs, fail_at \in 0..MaxCalls :
        LET out == FetchAirtableRecords(table_name, fail_at)
        IN  /\ op' = "fetch_airtable_records"
            /\ call_args' = <<"fetch_airtable_records", <<table_name, fail_at>> >>
            /\ op_ret' = <<"fetch_airtable_records", out.ret>>
            /\ op_requests' = out.requests
            /\ OpsFrame

CallGetAirtableTableInfo ==
    /\ NotCalledYet
    /\ \E table_name \in TableArgs, fail_at \in 0..MaxCalls,
          t \in DOMAIN InfoTables :
        LET out == get_airtable_table_info(table_name, InfoTables[t], fail_at)
        IN  /\ op' = "get_airtable_table_info"
            /\ call_args' = <<"get_airtable_table_info",
                               <<table_name, t, fail_at>> >>
            /\ op_ret' = <<"get_airtable_table_info", out.ret>>
            /\ op_requests' = out.requests
            /\ OpsFrame

CallUpdateExistingRecords ==
    /\ NotCalledYet
    /\ \E fail_at \in 0..MaxCalls :
        LET out == update_existing_records_with_deduplication_results(fail_at)
        IN  /\ op' = "update_existing_records_with_deduplication_results"
            /\ call_args' = <<"update_existing_records_with_deduplication_results", fail_at>>
            /\ op_ret' = <<"update_existing_records_with_deduplication_results", out.ret>>
            /\ op_requests' = out.requests
            /\ OpsFrame

CallCreateNewRecordsBatch ==
    /\ NotCalledYet
    /\ \E fail_at \in 0..MaxCalls, n \in 0..Len(records) :
        LET out == create_new_records_batch(SubSeq(records, 1, n), fail_at)
        IN  /\ op' = "create_new_records_batch"
            /\ call_args' = <<"create_new_records_batch", <<n, fail_at>> >>
            /\ op_ret' = <<"create_new_records_batch", out.ret>>
            /\ op_requests' = out.requests
            /\ OpsFrame

CallDeleteDuplicateRecords ==
    /\ NotCalledYet
    /\ \E fail_at \in 0..MaxCalls,
          record_ids \in SeqsUpTo({existing_records[k].id : k \in DOMAIN existing_records},
                                  MaxBatch) :
        LET out == delete_duplicate_records(record_ids, fail_at)
        IN  /\ op' = "delete_duplicate_records"
            /\ call_args' = <<"delete_duplicate_records", <<record_ids, fail_at>> >>
            /\ op_ret' = <<"delete_duplicate_records", out.ret>>
            /\ op_requests' = out.requests
            /\ OpsFrame

CallSmartUpdate ==
    /\ NotCalledYet
    /\ \E fail_at \in 0..MaxCalls :
        LET out == smart_update_all_providers_with_deduplication(fail_at)
        IN  /\ op' = "smart_update_all_providers_with_deduplication"
            /\ call_args' = <<"smart_update_all_providers_with_deduplication", fail_at>>
            /\ op_ret' = <<"smart_update_all_providers_with_deduplication", out.ret>>
            /\ op_requests' = out.requests
            /\ OpsFrame

OpsNext ==
    \/ CallConfigureLinkedRecordFields
    \/ CallGetEventNames
    \/ CallProcessCheckboxFields
    \/ CallDetectLinkedRecordFields
    \/ CallConvert
    \/ CallFetchAirtableRecords
    \/ CallGetAirtableTableInfo
    \/ CallUpdateExistingRecords
    \/ CallCreateNewRecordsBatch
    \/ CallDeleteDuplicateRecords
    \/ CallSmartUpdate

OpsSpec == OpsInit /\ [][OpsNext]_allvars


(* ------------------------- vocabulary of the claims -------------------- *)
Range(seq) == {seq[k] : k \in 1..Len(seq)}

\* existing[pos].id for a 0-based position
IdAt(pos) == existing_records[pos + 1].id

\* indices[0] of group number g (0-based)
PrimaryOf(g) == matched_groups[g + 1].indices[1]

\* the inputs meet the caller's contract: one merged record per group, every
\* position inside the fetched records
Aligned ==
    /\ Len(records) = Len(matched_groups)
    /\ \A g \in 1..Len(matched_groups) :
         \A k \in 1..Len(matched_groups[g].indices) :
            matched_groups[g].indices[k] < Len(existing_records)

\* the update loop ran to its end without a failed request
UpdateLoopOver == pc \in {"update", "delete", "done"} /\ i >= Len(records)

\* the update phase returned (True, records_to_delete)
UpdateReturnedSuccess ==
    \/ pc = "delete"
    \/ pc = "done" /\ "success" \in DOMAIN result

\* ids of the duplicates of a group: existing[indices[1:]].id, those in bounds
DuplicateIdsOf(g) ==
    {IdAt(matched_groups[g].indices[k]) :
        k \in {d \in 2..Len(matched_groups[g].indices) :
                  matched_groups[g].indices[d] < Len(existing_records)}}

\* the duplicate ids of all groups
AllDuplicateIds == UNION {DuplicateIdsOf(g) : g \in 1..Len(matched_groups)}

Patches == {k \in 1..Len(http_log) : http_log[k].method = "PATCH"}
Deletes == {k \in 1..Len(http_log) : http_log[k].method = "DELETE"}

\* an acknowledged PATCH before request k carries an entry for this id
UpdatedBefore(id, k) ==
    \E m \in Patches :
        /\ m < k
        /\ http_log[m].ok
        /\ \E e \in 1..Len(http_log[m].records) : http_log[m].records[e].id = id

(* --------------------------------- claims ------------------------------ *)

\* C1: a duplicate is deleted only after an acknowledged update carrying its
\* group's primary: for aligned inputs, every DELETE that removed
\* existing[g.indices[k]].id, k >= 1, is preceded in the run by a successful
\* PATCH with an entry for existing[g.indices[0]].id.
C1_DeleteOnlyAfterPrimaryUpdated ==
    Aligned =>
        \A d \in Deletes :
            \A g \in 1..Len(matched_groups) :
                (http_log[d].ok /\ http_log[d].id \in DuplicateIdsOf(g))
                    => UpdatedBefore(IdAt(PrimaryOf(g - 1)), d)

\* C2: when the update loop is over, every merged record i with a group and an
\* in-bounds primary has an update entry sent for that primary's id, and every
\* other merged record has no entry and a logged diagnostic.
C2_EveryAlignedRecordUpdated ==
    UpdateLoopOver =>
        \A p \in 0..(Len(records) - 1) :
            IF p < Len(matched_groups) /\ PrimaryOf(p) < Len(existing_records)
            THEN \E k \in 1..Len(sent) :
                    sent[k].rec = p /\ sent[k].id = IdAt(PrimaryOf(p))
            ELSE /\ \A k \in 1..Len(sent) : sent[k].rec # p
                 /\ \E dg \in diagnostics : dg.rec = p

\* C3: every update entry written pairs positionally: the entry built from
\* merged record i targets the primary of group i, whatever the length of the
\* merged sequence.
C3_EntriesPairPositionally ==
    \A k \in 1..Len(sent) :
        sent[k].ok =>
            /\ sent[k].rec < Len(matched_groups)
            /\ PrimaryOf(sent[k].rec) < Len(existing_records)
            /\ sent[k].id = IdAt(PrimaryOf(sent[k].rec))

\* C4: after the update phase returns success, the deletion list holds exactly
\* the in-bounds ids existing[indices[1:]] of the groups with more than one
\* index, each once, and never the id of such a group's primary.
C4_DeletionsAreExactlyTheDuplicates ==
    UpdateReturnedSuccess =>
        /\ \A g \in 1..Len(matched_groups) :
              Len(matched_groups[g].indices) > 1
                 => DuplicateIdsOf(g) \subseteq Range(records_to_delete)
        /\ Range(records_to_delete) \subseteq AllDuplicateIds
        /\ Cardinality(Range(records_to_delete)) = Len(records_to_delete)
        /\ \A g \in 1..Len(matched_groups) :
              (Len(matched_groups[g].indices) > 1
                  /\ PrimaryOf(g - 1) < Len(existing_records))
                 => IdAt(PrimaryOf(g - 1)) \notin Range(records_to_delete)

\* reached: a successful return whose groups include a duplicate outside the
\* fetched records and at least two duplicates inside
C4_Witness ==
    /\ UpdateReturnedSuccess
    /\ Len(records_to_delete) >= 2
    /\ \E g \in 1..Len(matched_groups) :
          \E k \in 2..Len(matched_groups[g].indices) :
             matched_groups[g].indices[k] >= Len(existing_records)

\* C5: a failed delete call is skipped and every other id of the list is still
\* attempted: when the run is over, each id of the deletion list has a DELETE
\* request.
C5_EveryDeletionAttempted ==
    (pc = "done" /\ "success" \in DOMAIN result) =>
        \A k \in 1..Len(records_to_delete) :
            \E d \in Deletes : http_log[d].id = records_to_delete[k]

\* C6: a failed update request is the last request of the run: no later
\* PATCH, no DELETE, and the run returns the error result.
C6_FailedUpdateAbortsRun ==
    \A k \in Patches :
        ~http_log[k].ok =>
            /\ k = Len(http_log)
            /\ pc = "done"
            /\ result = ErrorResult("Failed to update All Providers table")

\* reached: the first chunk failed while a later chunk had entries to send and
\* duplicates were waiting to be deleted
C6_Witness ==
    /\ Len(http_log) = 1
    /\ ~http_log[1].ok
    /\ i + batch_size < Len(records)
    /\ batch_updates(i + batch_size) # <<>>
    /\ find_records_to_delete # <<>>

\* C7: no DELETE request is followed by a PATCH request.
C7_UpdatesBeforeDeletes ==
    \A d \in Deletes : \A u \in Patches : u < d

\* reached: two update chunks and then a delete
C7_Witness ==
    /\ Cardinality(Patches) >= 2
    /\ Deletes # {}

\* C8: a run in which a delete call failed never returns the result of the run
\* in which every deletion succeeded.
C8_DeleteFailureIsReported ==
    (pc = "done" /\ \E d \in Deletes : ~http_log[d].ok)
        => result # SuccessSummary(find_records_to_delete)

\* C9: no id is both an update target and in the deletion list, and every id
\* of the deletion list is existing[g.indices[k]].id for a group g and k >= 1.
C9_UpdatesAndDeletionsDisjoint ==
    UpdateReturnedSuccess =>
        /\ {sent[k].id : k \in 1..Len(sent)} \cap Range(records_to_delete) = {}
        /\ Range(records_to_delete) \subseteq AllDuplicateIds

\* reached: a plan with both updates and deletions
C9_Witness ==
    /\ UpdateReturnedSuccess
    /\ Len(sent) >= 2
    /\ records_to_delete # <<>>

\* C10: no record id is the target of two update entries of one run, across
\* all chunks.
C10_NoIdUpdatedTwice ==
    \A a, b \in 1..Len(sent) : a # b => sent[a].id # sent[b].id

\* reached: entries sent in two different chunks
C10_Witness ==
    /\ Cardinality(Patches) >= 2
    /\ Len(sent) > batch_size

(* ---------- the apply phase run twice on one plan, remote unchanged ------ *)
\* most records in the table when the apply phase is run twice
MaxPlan == 12

\* update_existing_records_with_deduplication_results is entered with a plan:
\* the fetched records, the matcher's groups and the merged records
ApplyInit ==
    /\ AIRTABLE_API_KEY = SetTo(<<"k">>)
    /\ AIRTABLE_BASE_ID = SetTo(<<"k">>)
    /\ config_ok = validate_airtable_config(AIRTABLE_API_KEY, AIRTABLE_BASE_ID)
    /\ AIRTABLE_TABLE_NAME = DefaultTable
    /\ LINKED_RECORD_FIELDS = {"Events"}
    /\ \E n \in 1..MaxPlan, pat \in Patterns, missing \in 0..MaxMissing,
          skew \in -MaxSkew..MaxSkew :
        LET groups == create_matched_groups(pat, n + missing)
        IN  /\ Len(groups) + skew >= 0
            /\ existing_records = fetch_airtable_records(n)
            /\ matched_groups = groups
            /\ records = filter_records(merge_matched_records(Len(groups) + skew))
    /\ pc = "update"
    /\ i = 0
    /\ success_count = 0
    /\ records_to_delete = <<>>
    /\ del_pos = 0
    /\ deleted_count = 0
    /\ http_log = <<>>
    /\ sent = <<>>
    /\ diagnostics = {}
    /\ result = NoResult
    /\ events_table = <<>>
    /\ NoCall

\* the remote store no longer holds a record once a DELETE of it was accepted
Deleted(id) ==
    \E k \in DOMAIN applied :
        applied[k].method = "DELETE" /\ applied[k].id = id /\ applied[k].ok

\* the store accepts an update of records it holds
RemoteUpdateBatch ==
    /\ UpdateBatch
    /\ http_log' # http_log =>
          LET request == http_log'[Len(http_log')]
          IN  request.ok = (\A k \in DOMAIN request.records : ~Deleted(request.records[k].id))

\* the store accepts a DELETE of a record it holds, and answers not found otherwise
RemoteDeleteRecord ==
    /\ DeleteRecord
    /\ LET request == http_log'[Len(http_log')]
       IN  request.ok = ~Deleted(request.id)

\* the first apply phase is over with every request accepted; the same plan is
\* applied again
ApplyAgain ==
    /\ pc = "done"
    /\ run = 1
    /\ "success" \in DOMAIN result
    /\ run' = 2
    /\ applied' = http_log
    /\ pc' = "update"
    /\ i' = 0
    /\ success_count' = 0
    /\ records_to_delete' = <<>>
    /\ del_pos' = 0
    /\ deleted_count' = 0
    /\ http_log' = <<>>
    /\ sent' = <<>>
    /\ diagnostics' = {}
    /\ result' = NoResult
    /\ UNCHANGED <<config_ok, existing_records, matched_groups, records,
                   AIRTABLE_API_KEY, AIRTABLE_BASE_ID, AIRTABLE_TABLE_NAME,
                   LINKED_RECORD_FIELDS, events_table, op, call_args,
                   op_ret, op_requests>>

ApplyNext == RemoteUpdateBatch \/ FinishUpdates \/ RemoteDeleteRecord \/ ApplyAgain

ApplySpec == ApplyInit /\ [][ApplyNext]_allvars

(* ------------------------------ C11 ------------------------------------ *)
RemoteFacing ==
    {"fetch_airtable_records", "get_airtable_table_info", "get_event_names_from_ids",
     "smart_update_all_providers_with_deduplication",
     "update_existing_records_with_deduplication_results",
     "create_new_records_batch", "delete_duplicate_records"}

\* the value each function returns when it gives up
ReturnedFailureValue ==
    CASE op \in {"fetch_airtable_records", "get_event_names_from_ids"} -> Ret = <<>>
      [] op = "get_airtable_table_info" -> DOMAIN Ret = {}
      [] op = "smart_update_all_providers_with_deduplication" ->
            DOMAIN Ret = {"error"}
      [] op = "update_existing_records_with_deduplication_results" ->
            Ret = <<FALSE, <<>>>>
      [] op \in {"create_new_records_batch", "delete_duplicate_records"} ->
            Ret = FALSE
      [] OTHER -> FALSE

\* C11: with the API key or the base id missing, every remote-facing function
\* returns its failure value and issues no remote call.
C11_NoCallWithoutConfiguration ==
    (op \in RemoteFacing /\ (Missing(AIRTABLE_API_KEY) \/ Missing(AIRTABLE_BASE_ID)))
        => (op_requests = <<>> /\ ReturnedFailureValue)

\* the base id alone is missing and the update is called on a plan whose first
\* batch has entries to send
C11_Witness ==
    /\ op = "update_existing_records_with_deduplication_results"
    /\ ~Missing(AIRTABLE_API_KEY)
    /\ Missing(AIRTABLE_BASE_ID)
    /\ batch_updates(0) # <<>>
    /\ op_requests = <<>>

(* ------------------------------ C12 ------------------------------------ *)
\* C12: the Event Attendance that process_checkbox_fields resolves is the same
\* for two records that differ only in their Event RSVPs value.
C12_AttendanceIndependentOfRsvps ==
    op = "process_checkbox_fields" =>
        \A v \in DOMAIN CheckboxValues :
            SameValue(
                Get(process_checkbox_fields(
                        WithField(Arg, "Event RSVPs", CheckboxValues[v])).ret,
                    "Event Attendance", Absent),
                Get(Ret, "Event Attendance", Absent))

(* ------------------------------ C15 ------------------------------------ *)
Placeholder(field) ==
    IF field = "Event RSVPs" THEN RsvpPlaceholder ELSE AttendancePlaceholder

\* C15: a checkbox field that is boolean true resolves to the labels of the
\* record's linked Events field when there are any, in the same order, and to
\* the single placeholder label when there are none.
C15_TrueCheckboxTakesLinkedLabels ==
    op = "process_checkbox_fields" =>
        \A field \in {"Event RSVPs", "Event Attendance"} :
            SameValue(Get(Arg, field, Absent), Bool(TRUE)) =>
                LET labels == LinkedEventNames(Arg).ret
                IN  SameValue(Ret[field],
                              IF labels # <<>> THEN List(labels)
                              ELSE List(<<Placeholder(field)>>))

(* ------------------------------ C16 ------------------------------------ *)
\* a lookup that brought back a label
LookupSucceeded(event_id) ==
    /\ StartsWithRec(event_id)
    /\ Lookup(event_id).kind = "200"
    /\ Lookup(event_id).name # <<>>

LabelsOfSucceeded(event_ids) ==
    LET kept == SelectSeq(event_ids, LookupSucceeded)
    IN  [k \in 1..Len(kept) |-> Lookup(kept[k]).name]

\* C16: get_event_names_from_ids returns the labels of exactly the references
\* whose lookup succeeded, in input order, whether the other lookups failed
\* with a status or with a transport error.
C16_OnlyFailedReferenceLost ==
    (op = "get_event_names_from_ids" /\ config_ok)
        => Ret = LabelsOfSucceeded(Arg)

(* ------------------------------ C17 ------------------------------------ *)
ObservedFields(remote) == UNION {DOMAIN remote[k].fields : k \in DOMAIN remote}

HoldsReferenceList(remote, f) ==
    \E k \in DOMAIN remote :
        f \in DOMAIN remote[k].fields /\ IsLinkedArray(remote[k].fields[f])

HoldsOtherValue(remote, f) ==
    \E k \in DOMAIN remote :
        f \in DOMAIN remote[k].fields /\ ~IsLinkedArray(remote[k].fields[f])

\* C17 as stated: a field is classified as linked exactly when it is configured
\* or every value observed for it in the batch is a list of reference ids; a
\* field with a reference list in one record and another value in another
\* record is not classified.
C17_LinkedIffEveryValueIsReferenceList ==
    op = "detect_linked_record_fields" =>
        \A f \in ObservedFields(Arg) \cup LINKED_RECORD_FIELDS :
            f \in Ret <=>
                (f \in LINKED_RECORD_FIELDS \/ ~HoldsOtherValue(Arg, f))

\* C17 amended: a field is classified as linked exactly when it is configured
\* or at least one record of the batch holds a list of reference ids for it,
\* whatever the other records hold.
C17_LinkedIffSomeValueIsReferenceList ==
    op = "detect_linked_record_fields" =>
        \A f \in ObservedFields(Arg) \cup LINKED_RECORD_FIELDS :
            f \in Ret <=>
                (f \in LINKED_RECORD_FIELDS \/ HoldsReferenceList(Arg, f))

\* a batch where one record holds a reference list for Tags and another a
\* different value, and Tags came out linked
C17_Witness ==
    /\ op = "detect_linked_record_fields"
    /\ HoldsReferenceList(Arg, "Tags")
    /\ HoldsOtherValue(Arg, "Tags")
    /\ "Tags" \in Ret

(* ------------------------------ C13 ------------------------------------ *)
MappedAirtableFields == {field_mapping[k][2] : k \in 1..Len(field_mapping)}

\* the Airtable fields convert_airtable_to_dataframe_format reads
ConvertedAirtableFields == {converted_keys[k][2] : k \in 1..Len(converted_keys)}

RoundTrip(remote) ==
    format_record_for_airtable(
        convert_airtable_to_dataframe_format(remote).ret[1]).fields

\* C13 as stated: a remote record whose fields are all covered by the mapping
\* table comes back unchanged from convert followed by format.
C13_RoundTripOnMappedFields ==
    op = "convert_airtable_to_dataframe_format" =>
        LET r == Arg[1]
        IN  DOMAIN r.fields \subseteq MappedAirtableFields =>
                SameFields(format_record_for_airtable(Ret[1]).fields, r.fields)

CheckboxFields == {"Event RSVPs", "Event Attendance"}

\* C13 amended: the round trip holds for a remote record whose fields are all
\* among those convert reads, hold non-empty values, and whose checkbox fields
\* are neither lists nor configured as linked record fields.
C13_RoundTripOnConvertedNonEmptyFields ==
    op = "convert_airtable_to_dataframe_format" =>
        LET r == Arg[1]
        IN  (/\ DOMAIN r.fields \subseteq ConvertedAirtableFields
             /\ \A f \in DOMAIN r.fields : Truthy(r.fields[f])
             /\ \A f \in DOMAIN r.fields \cap CheckboxFields :
                    r.fields[f].t # "list" /\ f \notin LINKED_RECORD_FIELDS)
            => SameFields(format_record_for_airtable(Ret[1]).fields, r.fields)

\* a record with a text, two reference lists and a ticked checkbox converted,
\* with the configuration valid
C13_Witness ==
    /\ op = "convert_airtable_to_dataframe_format"
    /\ config_ok
    /\ DOMAIN Arg[1].fields = {"Email", "Tags", "Events", "Event RSVPs"}
    /\ IsLinkedArray(Arg[1].fields["Tags"])
    /\ Arg[1].fields["Event RSVPs"].t = "bool"
    /\ events_table[RecA].kind = "200"

(* ------------------------------ C18 ------------------------------------ *)
IsPatch(request) == request.method = "PATCH"

\* the batches the loop has gone through that had at least one entry to send
ChunksWithEntries ==
    {b \in 0..(i - 1) : b % batch_size = 0 /\ batch_updates(b) # <<>>}

\* 1 when the run stopped on a refused update request, which the loop never left
RefusedUpdate ==
    IF pc = "done" /\ "error" \in DOMAIN result /\ http_log # <<>> THEN 1 ELSE 0

\* C18: the update requests go out one after the other in the order of the
\* merged records, each carries between 1 and batch_size entries, and a batch
\* whose entries were all skipped sends no request.
C18_UpdateRequestsChunkedInOrder ==
    LET patches == SelectSeq(http_log, IsPatch)
    IN  /\ \A k \in DOMAIN patches :
            Len(patches[k].records) >= 1 /\ Len(patches[k].records) <= batch_size
        /\ \A k \in 1..(Len(sent) - 1) : sent[k].rec < sent[k + 1].rec
        /\ Len(patches) = Cardinality(ChunksWithEntries) + RefusedUpdate

\* the update is over after a full first request, a second smaller one and at
\* least one batch in between or after that sent nothing
C18_Witness ==
    LET patches == SelectSeq(http_log, IsPatch)
    IN  /\ pc = "delete"
        /\ Len(patches) = 2
        /\ Len(patches[1].records) = batch_size
        /\ Len(patches[2].records) < batch_size
        /\ Len(records) > 2 * batch_size

(* ------------------------------ C14 ------------------------------------ *)
Payloads(log) ==
    LET patches == SelectSeq(log, IsPatch)
    IN  [k \in DOMAIN patches |-> patches[k].records]

Attempted(id) ==
    \E k \in DOMAIN http_log : http_log[k].method = "DELETE" /\ http_log[k].id = id

\* C14: the apply phase run again on an applied plan sends the update payloads
\* of the first run, attempts the deletion of every id of the plan although
\* each is answered not found, and ends with the success summary.
C14_RerunSamePayloadsNotFoundNonFatal ==
    (run = 2 /\ pc = "done") =>
        /\ Payloads(http_log) = Payloads(applied)
        /\ \A k \in DOMAIN records_to_delete : Attempted(records_to_delete[k])
        /\ "success" \in DOMAIN result

(* ------------------------------ C19 ------------------------------------ *)
\* C19: a success summary reports as records_updated the number of update
\* entries sent to the remote store and as records_deleted the number of
\* delete calls the store accepted in that run.
C19_SummaryCountsWhatWasDone ==
    (pc = "done" /\ "success" \in DOMAIN result) =>
        /\ result.records_updated = Len(sent)
        /\ result.records_deleted = deleted_count

====
